---- MODULE Spec2Model ----
(***************************************************************************)
(* The decoding loop of generate.py (generate, lines 15-71) as a state     *)
(* machine.  One call of generate is followed statement by statement.  Two *)
(* runs of the same call (same arguments, same scorer, same sampler        *)
(* outcomes) are carried side by side so that what one run may observe and *)
(* the other may not (the uninitialised part of the torch.empty buffer)    *)
(* shows up as a difference between them.                                  *)
(***************************************************************************)
EXTENDS Integers, Sequences, FiniteSets, TLC

\* ------------------------------------------------------------------ bounds
MaxPromptLen == 2
MaxNewTokens == 2
MaxSeqLength == 2
VocabSize == 3

\* ------------------------------------------------------------- input sets
Tokens == 0 .. (VocabSize - 1)
Runs == {1, 2}

\* Optional[...] arguments: None is the empty tuple, a value x is <<x>>.
None == << >>
Some(x) == << x >>

\* Raw logit values a scorer returns, and the temperatures tried.  The raw
\* values are multiples of every non-zero temperature so that the division
\* of line 54 is exact.
LogitValues == {-2, 0, 2}
Temperatures == {-1, 0, 1, 2}
LogitVectors == [Tokens -> LogitValues]

SeqsUpTo(S, n) == UNION {[1 .. k -> S] : k \in 0 .. n}
Prompts == SeqsUpTo(Tokens, MaxPromptLen)
NewTokenCounts == -1 .. MaxNewTokens
SeqLengths == -1 .. MaxSeqLength
TopKs == {None} \cup {Some(k) : k \in 0 .. (VocabSize + 1)}
EosIds == {None} \cup {Some(e) : e \in Tokens}

\* A slot of torch.empty that was never written.
Uninit == -1
\* -float("Inf"), below every finite logit of the model.
NegInf == -1000

VARIABLES
    prompt,          \* the caller's tensor idx (line 18)
    max_new_tokens, max_seq_length, temperature, top_k, eos_id,
    idx,             \* the buffer `empty`, rebound to idx (lines 41-43), per run
    t,               \* the loop variable (line 46)
    idx_cond,        \* the context handed to the model (line 53), per run
    logits,          \* logits of the current step (lines 54, 59), per run
    probs,           \* tokens with non-zero probability (line 61), per run
    idx_next,        \* the sampled token (line 62)
    result,          \* the returned tensor, per run
    pc, err,
    calls,           \* number of scorer invocations so far
    sampled          \* tokens the sampler returned, in order

vars == <<prompt, max_new_tokens, max_seq_length, temperature, top_k, eos_id,
          idx, t, idx_cond, logits, probs, idx_next, result, pc, err, calls,
          sampled>>
params == <<prompt, max_new_tokens, max_seq_length, temperature, top_k, eos_id>>
args == <<max_new_tokens, max_seq_length, temperature, top_k, eos_id>>

\* ----------------------------------------------------------------- helpers
Min(a, b) == IF a <= b THEN a ELSE b
Max(a, b) == IF a >= b THEN a ELSE b

\* s[:n] for 0 <= n
Take(s, n) == SubSeq(s, 1, Min(n, Len(s)))

\* s[start:] with Python's treatment of a negative or too large start
SliceFrom(s, start) ==
    LET n == Len(s)
        b == IF start < 0 THEN Max(start + n, 0) ELSE Min(start, n)
    IN SubSeq(s, b + 1, n)

\* What a read of a tensor slice may yield: a slot never written holds any
\* token.
Reads(s) ==
    IF \A i \in 1 .. Len(s) : s[i] # Uninit THEN {s}
    ELSE {r \in [1 .. Len(s) -> Tokens] :
            \A i \in 1 .. Len(s) : s[i] # Uninit => r[i] = s[i]}

T == Len(prompt)

\* mutant: the prompt length left out of the size of the buffer
T_newWithoutPrompt == max_new_tokens

\* mutant: one slot and one step too many
T_newOneMore == T + max_new_tokens + 1

T_new == T + max_new_tokens

\* torch.empty(T_new) raises for a negative size.
EmptyRaises == T_new < 0
\* empty[:T] = idx raises unless the shapes agree or idx broadcasts (size 1).
SetPromptRaises == Min(T, T_new) # T /\ T # 1

\* mutant: the buffer allocated but the prompt never copied into it
AllocatedUncopied == [i \in 1 .. T_new |-> Uninit]

\* empty[:T] = idx on a fresh buffer of T_new slots
Allocated ==
    [i \in 1 .. T_new |-> IF i <= T THEN prompt[i] ELSE Uninit]


\* mutant: the range runs one value too far
InRangeInclusive(n) == n <= T_new

\* range(T, T_new) has a next value
InRange(n) == n < T_new


\* mutant: the context takes in the slot about to be written
ContextWithUnfilled(buf, n) == Take(buf, n + 1)

\* idx[:t]
Context(buf, n) == Take(buf, n)

\* mutant: the crop keeps the oldest tokens, not the most recent
CropHead(c) == IF T <= max_seq_length THEN c ELSE Take(c, max_seq_length)

\* mutant: the crop decided by the current length of the context
CropByCurrentLength(c) ==
    IF Len(c) <= max_seq_length THEN c ELSE SliceFrom(c, -max_seq_length)

\* line 50
Crop(c) == IF T <= max_seq_length THEN c ELSE SliceFrom(c, -max_seq_length)

\* logits / temperature: a zero temperature leaves only inf and nan entries.
Quot(a, b) == CHOOSE q \in -4 .. 4 : q * b = a
Divide(raw, temp) ==
    IF temp = 0 THEN [nan |-> TRUE, v |-> [i \in Tokens |-> 0]]
    ELSE [nan |-> FALSE, v |-> [i \in Tokens |-> Quot(raw[i], temp)]]

NoLogits == [nan |-> FALSE, v |-> [i \in Tokens |-> 0]]


\* mutant: top_k handed to torch.topk as it is
ClampKMissing(k) == k

\* min(top_k, logits.size(-1))
ClampK(k) == Min(k, VocabSize)

\* torch.topk raises for k outside 0..n; v[[-1]] raises for an empty v.
TopKRaises(k) == k < 1 \/ k > VocabSize

\* The values of torch.topk(v, k): the k largest, in descending order.
RECURSIVE SortDesc(_, _)
SortDesc(v, S) ==
    IF S = {} THEN << >>
    ELSE LET m == CHOOSE i \in S : \A j \in S : v[i] >= v[j]
         IN <<v[m]>> \o SortDesc(v, S \ {m})
TopKValues(v, k) == SubSeq(SortDesc(v, Tokens), 1, k)


\* mutant: the entries tied with the k-th largest masked too
MaskBelowOrEqual(v, cut) == [i \in Tokens |-> IF v[i] <= cut THEN NegInf ELSE v[i]]

\* logits[logits < v[[-1]]] = -inf
MaskBelow(v, cut) == [i \in Tokens |-> IF v[i] < cut THEN NegInf ELSE v[i]]

\* lines 57-59
TopKMasked(v) ==
    IF top_k = None THEN v
    ELSE LET k == ClampK(top_k[1])
             vals == TopKValues(v, k)
         IN MaskBelow(v, vals[k])

\* softmax gives a non-zero probability exactly to the entries above -inf.
Support(v) == {i \in Tokens : v[i] # NegInf}


\* mutant: the token written one position early
WriteAtPrevious(buf, n, tok) == [buf EXCEPT ![n] = tok]

\* idx[t] = idx_next
WriteAt(buf, n, tok) == [buf EXCEPT ![n + 1] = tok]

\* mutant: the EOS test never true
EosNeverTriggered(next, eos) == FALSE

\* idx_next == eos_id
EosTriggered(next, eos) == eos # None /\ next = eos


\* mutant: the EOS token left out of the returned slice
EosSliceExclusive(buf, n) == Take(buf, n)

\* mutant: the whole buffer returned on EOS, its unwritten tail included
EosSliceWhole(buf, n) == buf

\* idx[:t + 1]
EosSlice(buf, n) == Take(buf, n + 1)


\* mutant: the caller's tensor grown in place to serve as the buffer
SharesStorageInPlace == TRUE

\* lines 41-43: the buffer is a tensor of its own, made by torch.empty and
\* filled by a copy of the prompt, and the name idx is rebound to it; it
\* shares no storage with the caller's tensor.
SharesStorage == FALSE

\* What the caller's tensor holds once the buffer holds buf.
CallerTensor(p, buf) == IF SharesStorage THEN buf ELSE p

\* -------------------------------------------------------------------- Init
Init ==
    /\ prompt \in Prompts
    /\ max_new_tokens \in NewTokenCounts
    /\ max_seq_length \in SeqLengths
    /\ temperature \in Temperatures
    /\ top_k \in TopKs
    /\ eos_id \in EosIds
    /\ idx = [r \in Runs |-> << >>]
    /\ t = 0
    /\ idx_cond = [r \in Runs |-> << >>]
    /\ logits = [r \in Runs |-> NoLogits]
    /\ probs = [r \in Runs |-> {}]
    /\ idx_next = None
    /\ result = [r \in Runs |-> None]
    /\ pc = "start"
    /\ err = "none"
    /\ calls = 0
    /\ sampled = << >>

Fail(kind) ==
    /\ pc' = "error"
    /\ err' = kind

\* The locals of one iteration (idx_cond, logits, probs, idx_next) are dead
\* once line 68 has been evaluated: each is assigned anew before its next use.
DropLocals ==
    /\ idx_cond' = [r \in Runs |-> << >>]
    /\ logits' = [r \in Runs |-> NoLogits]
    /\ probs' = [r \in Runs |-> {}]
    /\ idx_next' = None

\* lines 39-43
Alloc ==
    /\ pc = "start"
    /\ IF EmptyRaises THEN Fail("empty") /\ UNCHANGED <<prompt, idx, t>>
       ELSE IF SetPromptRaises THEN Fail("setitem") /\ UNCHANGED <<prompt, idx, t>>
       ELSE /\ idx' = [r \in Runs |-> Allocated]
            /\ prompt' = CallerTensor(prompt, Allocated)
            /\ t' = T
            /\ pc' = "loop"
            /\ err' = err
    /\ UNCHANGED <<args, idx_cond, logits, probs, idx_next, result, calls, sampled>>

\* lines 46-54: one more value of the range, the context, the model call
Forward ==
    /\ pc = "loop"
    /\ InRange(t)
    /\ \E c1 \in Reads(Crop(Context(idx[1], t))), c2 \in Reads(Crop(Context(idx[2], t))) :
         IF c1 = << >>
         THEN \* view(1, -1) of an empty tensor raises
              /\ Fail("view")
              /\ UNCHANGED <<idx_cond, logits, calls>>
         ELSE \E raw1 \in LogitVectors :
              \E raw2 \in (IF c1 = c2 THEN {raw1} ELSE LogitVectors) :
                /\ idx_cond' = [r \in Runs |-> IF r = 1 THEN c1 ELSE c2]
                /\ logits' = [r \in Runs |->
                                Divide(IF r = 1 THEN raw1 ELSE raw2, temperature)]
                /\ calls' = calls + 1
                /\ pc' = "sample"
                /\ err' = err
    /\ UNCHANGED <<params, idx, t, probs, idx_next, result, sampled>>

\* lines 56-65: top-k cut, softmax, multinomial, the write of idx[t]
Sample ==
    /\ pc = "sample"
    /\ IF top_k # None /\ TopKRaises(ClampK(top_k[1]))
       THEN /\ Fail("topk")
            /\ UNCHANGED <<prompt, idx, logits, probs, idx_next, sampled>>
       ELSE IF \E r \in Runs : logits[r].nan
       THEN \* multinomial raises on a probability tensor holding nan
            /\ Fail("multinomial")
            /\ UNCHANGED <<prompt, idx, logits, probs, idx_next, sampled>>
       ELSE LET masked == [r \in Runs |-> TopKMasked(logits[r].v)]
            IN /\ logits' = [r \in Runs |-> [logits[r] EXCEPT !.v = masked[r]]]
               /\ probs' = [r \in Runs |-> Support(masked[r])]
               /\ \E tok \in Support(masked[1]) \cap Support(masked[2]) :
                    /\ idx_next' = Some(tok)
                    /\ idx' = [r \in Runs |-> WriteAt(idx[r], t, tok)]
                    /\ prompt' = CallerTensor(prompt, WriteAt(idx[1], t, tok))
                    /\ sampled' = Append(sampled, tok)
               /\ pc' = "check"
               /\ err' = err
    /\ UNCHANGED <<args, t, idx_cond, result, calls>>

\* lines 68-69
EosReturn ==
    /\ pc = "check"
    /\ EosTriggered(idx_next, eos_id)
    /\ \E r1 \in Reads(EosSlice(idx[1], t)), r2 \in Reads(EosSlice(idx[2], t)) :
         result' = [r \in Runs |-> Some(IF r = 1 THEN r1 ELSE r2)]
    /\ pc' = "done"
    /\ DropLocals
    /\ UNCHANGED <<params, idx, t, err, calls, sampled>>

\* line 68 false: back to line 46 with the next value of the range
Continue ==
    /\ pc = "check"
    /\ ~EosTriggered(idx_next, eos_id)
    /\ t' = t + 1
    /\ pc' = "loop"
    /\ DropLocals
    /\ UNCHANGED <<params, idx, result, err, calls, sampled>>

\* line 71: the range is exhausted
ReturnFull ==
    /\ pc = "loop"
    /\ ~InRange(t)
    /\ \E r1 \in Reads(idx[1]), r2 \in Reads(idx[2]) :
         result' = [r \in Runs |-> Some(IF r = 1 THEN r1 ELSE r2)]
    /\ pc' = "done"
    /\ UNCHANGED <<params, idx, t, idx_cond, logits, probs, idx_next, err, calls, sampled>>

Next == Alloc \/ Forward \/ Sample \/ EosReturn \/ Continue \/ ReturnFull

Spec == Init /\ [][Next]_vars

\* generate is sequential code: a statement that is reached is executed, and
\* the scorer and the sampler return whenever they are called.
\* Calls whose arguments meet the documented contract (lines 29-36): a
\* non-empty prompt, max_new_tokens >= 0, max_seq_length > 0, the default
\* temperature, top_k absent or 2.  Temperature and top_k decide only which
\* tokens the sampler may return, never whether the loop goes on.
InitValid ==
    /\ Init
    /\ Len(prompt) >= 1
    /\ max_new_tokens >= 0
    /\ max_seq_length > 0
    /\ temperature = 1
    /\ top_k \in {None, Some(2)}

FairSpec == InitValid /\ [][Next]_vars /\ WF_vars(Next)

\* ------------------------------------------------------------------ claims
\* The arguments the contract of generate calls valid.
ValidCall ==
    /\ T >= 1
    /\ max_new_tokens >= 0
    /\ max_seq_length > 0
    /\ temperature > 0
    /\ (top_k = None \/ top_k[1] >= 1)

Returned(r) == result[r][1]
HasEos == eos_id # None /\ \E j \in 1 .. Len(sampled) : Some(sampled[j]) = eos_id
FirstEos == CHOOSE j \in 1 .. Len(sampled) :
                /\ Some(sampled[j]) = eos_id
                /\ \A i \in 1 .. (j - 1) : Some(sampled[i]) # eos_id

\* C1: with eos_id = None, a call with T >= 1 and max_new_tokens >= 0 that
\* returns, returns a sequence of length exactly T + max_new_tokens whose
\* first T tokens are the prompt; a call with valid arguments never ends in
\* an error.
C1_LengthAndPrefix ==
    /\ ValidCall => pc # "error"
    /\ (pc = "done" /\ eos_id = None /\ T >= 1 /\ max_new_tokens >= 0) =>
          \A r \in Runs :
             /\ Len(Returned(r)) = T + max_new_tokens
             /\ \A i \in 1 .. T : Returned(r)[i] = prompt[i]

C1_Witness ==
    /\ pc = "done" /\ eos_id = None /\ ValidCall
    /\ T = 2 /\ max_new_tokens = 2
    /\ Len(Returned(1)) = 4

\* C2: once the sampler has returned eos_id (first at step k = T + j - 1,
\* its j-th call), nothing is sampled and the scorer is not invoked again,
\* the run is at line 68 or has returned, and what it returns has length
\* k + 1 with eos_id at position k.
C2_EosStops ==
    HasEos =>
       /\ FirstEos = Len(sampled)
       /\ calls = FirstEos
       /\ pc \in {"check", "done"}
       /\ pc = "done" =>
             \A r \in Runs :
                /\ Len(Returned(r)) = T + FirstEos
                /\ Some(Returned(r)[T + FirstEos]) = eos_id

C2_Witness ==
    /\ pc = "done" /\ HasEos
    /\ max_new_tokens = 2 /\ Len(sampled) = 1
    /\ Len(Returned(1)) = T + 1

\* C3: with T >= 1, max_seq_length > 0 and max_new_tokens >= 0, the context
\* handed to the scorer never has more than max_seq_length tokens, and is the
\* last max_seq_length tokens of idx[:t] whenever idx[:t] is longer.
C3_ContextBounded ==
    (pc = "sample" /\ T >= 1 /\ max_seq_length > 0 /\ max_new_tokens >= 0) =>
       \A r \in Runs :
          /\ Len(idx_cond[r]) <= max_seq_length
          /\ t > max_seq_length =>
                idx_cond[r] = SubSeq(idx[r], t - max_seq_length + 1, t)

\* C4: with max_new_tokens = 0 the scorer and the sampler are never invoked
\* and the call returns the prompt.
C4_ZeroNewTokens ==
    max_new_tokens = 0 =>
       /\ calls = 0
       /\ sampled = << >>
       /\ pc \in {"start", "loop", "done"}
       /\ pc = "done" => \A r \in Runs : result[r] = Some(prompt)

C4_Witness ==
    /\ pc = "done" /\ max_new_tokens = 0 /\ T = 2
    /\ result[1] = Some(prompt)

\* C5: a call (of a non-empty prompt) with max_seq_length <= 0, temperature <= 0 or max_new_tokens < 0
\* never invokes the scorer, never samples and never returns a sequence.
InvalidParameter ==
    max_seq_length <= 0 \/ temperature <= 0 \/ max_new_tokens < 0

C5_InvalidFailsFast ==
    (T >= 1 /\ InvalidParameter) =>
       /\ calls = 0
       /\ sampled = << >>
       /\ \A r \in Runs : result[r] = None

\* C6: a call with an empty prompt never returns a sequence and never
\* invokes the scorer.
C6_EmptyPromptRejected ==
    T = 0 =>
       /\ calls = 0
       /\ pc # "done"
       /\ \A r \in Runs : result[r] = None

\* C7: in a step with top_k = k, 1 <= k <= vocabulary size, the tokens left
\* with a non-zero probability are exactly those whose logit is at least the
\* k-th largest logit (entries below it are set to -inf, ties with it are
\* kept), so at least k of them, exactly k when the logits are pairwise
\* distinct; the token written at position t is one of them.
StrictlyAbove(v, x) == {j \in Tokens : v[j] > x}
AtLeast(v, x) == {j \in Tokens : v[j] >= x}
KthLargest(v, k) ==
    CHOOSE x \in {v[i] : i \in Tokens} :
        Cardinality(StrictlyAbove(v, x)) < k /\ k <= Cardinality(AtLeast(v, x))
PairwiseDistinct(v) == \A i, j \in Tokens : i # j => v[i] # v[j]

TopKStep ==
    /\ pc = "sample" /\ pc' = "check"
    /\ top_k # None /\ top_k[1] \in 1 .. VocabSize

C7_TopKEligible ==
    [][TopKStep =>
         \A r \in Runs :
            LET v == logits[r].v
                k == top_k[1]
                E == AtLeast(v, KthLargest(v, k))
            IN /\ probs'[r] = E
               /\ \A i \in Tokens :
                     logits'[r].v[i] = IF i \in E THEN v[i] ELSE NegInf
               /\ Cardinality(E) >= k
               /\ PairwiseDistinct(v) => Cardinality(E) = k
               /\ idx'[r][t + 1] \in E]_vars

\* a step with top_k = 1 and two logits tied at the top: two tokens eligible
C7_Witness ==
    /\ pc = "check" /\ top_k = Some(1)
    /\ Cardinality(probs[1]) = 2
    /\ idx[1][t + 1] \in probs[1]

\* C8: with top_k above the vocabulary size the top-k cut raises nothing and
\* masks nothing: the logits are left as they were and, unless they are nan
\* (temperature 0), every token stays eligible and one is sampled.
OversizeTopKStep ==
    /\ pc = "sample"
    /\ top_k # None /\ top_k[1] > VocabSize

C8_OversizeTopK ==
    [][OversizeTopKStep =>
         /\ err' # "topk"
         /\ (\A r \in Runs : ~logits[r].nan) =>
               /\ pc' = "check"
               /\ \A r \in Runs : logits'[r] = logits[r] /\ probs'[r] = Tokens]_vars

C8_Witness ==
    /\ pc = "check" /\ top_k = Some(VocabSize + 1)
    /\ probs[1] = Tokens
    /\ \E i, j \in Tokens : logits[1].v[i] < logits[1].v[j]

\* C9: two runs of the same call, with the same scorer and the same sampler
\* outcomes, hand the same context to the scorer at every step and return
\* the same sequence.
C9_Deterministic ==
    /\ idx_cond[1] = idx_cond[2]
    /\ result[1] = result[2]

C9_Witness ==
    /\ pc = "done" /\ calls = 2
    /\ result[1] # None /\ result[1] = result[2]

\* C10: with max_new_tokens >= 0, what generate returns is the prompt
\* followed by the tokens the sampler returned, in order: max_new_tokens of
\* them when none equals eos_id (or eos_id is None), otherwise those up to and
\* including the first that equals eos_id.
C10_PromptThenSamples ==
    (pc = "done" /\ max_new_tokens >= 0) =>
       /\ \A r \in Runs : result[r] = Some(prompt \o sampled)
       /\ ~HasEos => Len(sampled) = max_new_tokens
       /\ HasEos => FirstEos = Len(sampled)

\* the shape of the example: no eos_id, two new tokens, the same token twice
C10_Witness ==
    /\ pc = "done" /\ eos_id = None
    /\ T = MaxPromptLen /\ max_new_tokens = 2
    /\ sampled = <<1, 1>>
    /\ result[1] = Some(prompt \o <<1, 1>>)

LastN(s, n) == SubSeq(s, Len(s) - n + 1, Len(s))

\* C12: with T > max_seq_length > 0, the context handed to the scorer at step
\* t is the last max_seq_length tokens of idx[:t] (the prompt followed by the
\* tokens sampled so far), in order, so it has exactly max_seq_length tokens
\* from the first step on.
C12_LongPromptWindow ==
    (pc = "sample" /\ T > max_seq_length /\ max_seq_length > 0) =>
       \A r \in Runs :
          /\ Len(idx_cond[r]) = max_seq_length
          /\ idx_cond[r] = SubSeq(idx[r], t - max_seq_length + 1, t)
          /\ idx_cond[r] = LastN(prompt \o sampled, max_seq_length)

\* second step of a run with a two-token prompt and a window of one token
C12_Witness ==
    /\ pc = "sample" /\ T = 2 /\ max_seq_length = 1
    /\ t = T + 1
    /\ idx_cond[1] = <<sampled[1]>>

C14_StepIndex ==
    /\ (pc = "start" /\ pc' # "error") => t' = T
    /\ (pc = "check" /\ pc' = "loop") =>
          /\ t' = t + 1
          /\ Some(sampled[Len(sampled)]) # eos_id
    /\ (pc # "start" /\ ~(pc = "check" /\ pc' = "loop")) => t' = t
    /\ (pc # "done" /\ pc' = "done") =>
          \/ pc = "check" /\ Some(sampled[Len(sampled)]) = eos_id
          \/ pc = "loop" /\ t = T + max_new_tokens /\ ~HasEos

C14_Terminates ==
    /\ ValidCall ~> (pc = "done")
    /\ [][ValidCall => C14_StepIndex]_vars
    /\ [](ValidCall =>
            /\ calls <= max_new_tokens
            /\ Len(sampled) <= max_new_tokens
            /\ t <= T + max_new_tokens)

\* a run that took all its steps and returned
C14_Witness ==
    /\ ValidCall /\ pc = "done"
    /\ max_new_tokens = 2 /\ calls = 2 /\ t = T + 2
    /\ ~HasEos

\* C15: at the start of step t (and until its write) positions [0, T) of
\* the buffer hold the prompt, positions [T, t) the tokens sampled so far in
\* order, and the positions from t on are unwritten; the write of step t
\* changes position t only, and no other step changes the buffer, so a
\* written token is never overwritten.
C15_BufferLayout ==
    (pc \in {"loop", "sample"} /\ max_new_tokens >= 0) =>
       \A r \in Runs :
          /\ Len(idx[r]) = T + max_new_tokens
          /\ Len(sampled) = t - T
          /\ \A i \in 1 .. T : idx[r][i] = prompt[i]
          /\ \A i \in (T + 1) .. t : idx[r][i] = sampled[i - T]
          /\ \A i \in (t + 1) .. Len(idx[r]) : idx[r][i] = Uninit

C15_WriteFrame ==
    pc # "start" =>
       \A r \in Runs :
          /\ Len(idx'[r]) = Len(idx[r])
          /\ \A i \in 1 .. Len(idx[r]) :
                idx'[r][i] # idx[r][i] =>
                   /\ pc = "sample" /\ pc' = "check"
                   /\ i = t + 1
                   /\ idx[r][i] = Uninit
                   /\ Some(idx'[r][i]) = idx_next'

C15_BufferFrame ==
    /\ []C15_BufferLayout
    /\ [][C15_WriteFrame]_vars

\* the second step of a run is about to write: one sampled token in place,
\* the slot of this step still unwritten
C15_Witness ==
    /\ pc = "sample" /\ T = 2 /\ t = T + 1
    /\ idx[1][t] = sampled[1]
    /\ idx[1][t + 1] = Uninit

\* C16: scorer calls and samples alternate strictly, starting with a scorer
\* call: there is one scorer call more than samples exactly between the call
\* of a step and its sample, and as many otherwise; a run with
\* max_new_tokens >= 0 that returns has invoked the scorer, and the sampler,
\* once per generated token, i.e. len(returned) - T times.
C16_Alternation ==
    /\ pc = "sample" => calls = Len(sampled) + 1
    /\ pc \in {"start", "loop", "check", "done"} => calls = Len(sampled)
    /\ (pc = "done" /\ max_new_tokens >= 0) =>
          \A r \in Runs :
             /\ calls = Len(Returned(r)) - T
             /\ Len(sampled) = Len(Returned(r)) - T

\* a run stopped by EOS after one of two possible steps
C16_Witness ==
    /\ pc = "done" /\ max_new_tokens = 2
    /\ calls = 1 /\ Len(sampled) = 1
    /\ Len(Returned(1)) = T + 1

\* C17: in a sequence returned with eos_id set (max_new_tokens >= 0), eos_id
\* occurs among the generated positions only as the last element; the prompt
\* positions are returned as they were, and without a sampled eos_id the
\* sequence has all T + max_new_tokens tokens, whether or not the prompt
\* holds eos_id.
C17_EosOnlyLast ==
    (pc = "done" /\ eos_id # None /\ max_new_tokens >= 0) =>
       \A r \in Runs :
          /\ \A i \in (T + 1) .. Len(Returned(r)) :
                Some(Returned(r)[i]) = eos_id => i = Len(Returned(r))
          /\ SubSeq(Returned(r), 1, T) = prompt
          /\ ~HasEos => Len(Returned(r)) = T + max_new_tokens

\* eos_id sits in the prompt, no sampled token equals it, all steps taken
C17_Witness ==
    /\ pc = "done" /\ eos_id # None
    /\ \E i \in 1 .. T : Some(prompt[i]) = eos_id
    /\ ~HasEos
    /\ max_new_tokens = 2 /\ Len(Returned(1)) = T + 2

====
